---- MODULE Spec2Model ----
(***************************************************************************)
(* Model of app.py: the resume skill matcher with e-mail feedback.         *)
(*                                                                         *)
(* Text is a sequence of one-character strings.  A Python value that may   *)
(* be None is a record [isNone, v].  A score is an integer number of       *)
(* hundredths (66.67 is 6667).                                             *)
(***************************************************************************)
EXTENDS Integers, Sequences, FiniteSets, TLC

VARIABLES PDF_BACKEND, DOCX_BACKEND, must_skills, good_skills,
          uploaded_files, results, errors, pc, feedback_body,
          env, mi, sent, errors_out, calls, fn_arg, fn_ret

\* The loaded backends and the sidebar's skill lists.
config == <<PDF_BACKEND, DOCX_BACKEND, must_skills, good_skills>>
\* The batch loop's state.
batch == <<uploaded_files, results, errors>>
\* The mass-send loop's state and the history of send_email_smtp calls.
mass == <<mi, sent, errors_out, calls>>
\* The argument and the results of a function applied on its own.
fn == <<fn_arg, fn_ret>>

vars == <<config, batch, pc, feedback_body, env, mass, fn>>

\* ------------------------------------------------------------------ bounds
MaxMust == 2
MaxFiles == 2

\* ------------------------------------------------------------- characters
LowerLetters == {"a", "b", "c", "d"}
UpperLetters == {"A", "B"}
Digits == {"7"}
Whitespace == {" ", "\n", "\t"}

None == [isNone |-> TRUE, v |-> <<>>]
Str(s) == [isNone |-> FALSE, v |-> s]
\* Python truthiness of an optional string: None and "" are both false.
Truthy(x) == ~x.isNone /\ x.v # <<>>

SeqsUpTo(S, n) == UNION {[1..k -> S] : k \in 0..n}

RECURSIVE Concat(_)
Concat(ss) == IF ss = <<>> THEN <<>> ELSE Head(ss) \o Concat(Tail(ss))

RECURSIVE Join(_, _)
Join(ss, sep) ==
    IF ss = <<>> THEN <<>>
    ELSE IF Len(ss) = 1 THEN ss[1]
    ELSE ss[1] \o sep \o Join(Tail(ss), sep)

\* Python "s in t" for strings.
Contains(s, t) ==
    \E i \in 0..(Len(t) - Len(s)) : \A k \in 1..Len(s) : t[i + k] = s[k]

InList(x, xs) == \E i \in 1..Len(xs) : xs[i] = x

\* str.strip(): whitespace removed at both ends.
RECURSIVE LStrip(_)
LStrip(t) == IF t # <<>> /\ Head(t) \in Whitespace THEN LStrip(Tail(t)) ELSE t
RECURSIVE RStrip(_)
RStrip(t) ==
    IF t # <<>> /\ t[Len(t)] \in Whitespace THEN RStrip(SubSeq(t, 1, Len(t) - 1)) ELSE t
Strip(t) == RStrip(LStrip(t))

\* str.split(ch) for a one-character separator.
RECURSIVE SplitAcc(_, _, _)
SplitAcc(t, ch, cur) ==
    IF t = <<>> THEN <<cur>>
    ELSE IF Head(t) = ch THEN <<cur>> \o SplitAcc(Tail(t), ch, <<>>)
    ELSE SplitAcc(Tail(t), ch, Append(cur, Head(t)))
Split(t, ch) == SplitAcc(t, ch, <<>>)

\* ------------------------------------------------------------- clean_text
LowerChar(c) == IF c = "A" THEN "a" ELSE IF c = "B" THEN "b" ELSE c
Lower(t) == [i \in 1..Len(t) |-> LowerChar(t[i])]

\* re.sub(r'\s+', ' ', t)
RECURSIVE CollapseWs(_)
CollapseWs(t) ==
    IF t = <<>> THEN <<>>
    ELSE IF Head(t) \in Whitespace
         THEN <<" ">> \o CollapseWs(LStrip(t))
         ELSE <<Head(t)>> \o CollapseWs(Tail(t))

KeptChars == LowerLetters \cup Digits \cup Whitespace \cup {"@", ".", "_", "+", "-"}
\* re.sub(r'[^a-z0-9\s@._+-]', ' ', t)
BlankOthers(t) == [i \in 1..Len(t) |-> IF t[i] \in KeptChars THEN t[i] ELSE " "]

clean_text(text) ==
    IF ~Truthy(text) THEN <<>>
    ELSE Strip(BlankOthers(CollapseWs(Lower(text.v))))


\* ------------------------------------------------ extract_email_from_text
EmailLocal == LowerLetters \cup UpperLetters \cup Digits \cup {".", "_", "%", "+", "-"}
EmailDomain == LowerLetters \cup UpperLetters \cup Digits \cup {".", "-"}
EmailLetter == LowerLetters \cup UpperLetters

\* Index of the last character of the longest run of class C starting at i
\* (i - 1 when the run is empty): a greedy C+ or C{2,}.
RunEnd(t, i, C) ==
    CHOOSE j \in (i - 1)..Len(t) :
        /\ \A k \in i..j : t[k] \in C
        /\ (j < Len(t) => t[j + 1] \notin C)

\* Ends of the domain part after which "\.[a-zA-Z]{2,}" matches.
DomainEnds(t, ds) ==
    {k \in ds..RunEnd(t, ds, EmailDomain) :
        /\ k + 3 <= Len(t)
        /\ t[k + 1] = "."
        /\ t[k + 2] \in EmailLetter
        /\ t[k + 3] \in EmailLetter}

Max(S) == CHOOSE x \in S : \A y \in S : y <= x
Min(S) == CHOOSE x \in S : \A y \in S : x <= y

\* EMAIL_REGEX matches at start position i.
EmailMatchesAt(t, i) ==
    LET le == RunEnd(t, i, EmailLocal)
    IN /\ le >= i
       /\ le + 1 <= Len(t)
       /\ t[le + 1] = "@"
       /\ DomainEnds(t, le + 2) # {}

\* The matched text: greedy domain (backtracking to the last usable dot), greedy letters.
EmailMatchAt(t, i) ==
    LET le == RunEnd(t, i, EmailLocal)
        k == Max(DomainEnds(t, le + 2))
    IN SubSeq(t, i, RunEnd(t, k + 2, EmailLetter))

EmailStarts(t) == {i \in 1..Len(t) : EmailMatchesAt(t, i)}

extract_email_from_text(text) ==
    IF ~Truthy(text) THEN None
    ELSE IF EmailStarts(text.v) = {} THEN None
    ELSE Str(Strip(EmailMatchAt(text.v, Min(EmailStarts(text.v)))))

\* -------------------------------------------------------- classify_verdict
\* The bands with exclusive lower ends.
classify_verdict_exclusive(score) ==
    IF score > 7500 THEN "High"
    ELSE IF score > 5000 THEN "Medium"
    ELSE "Low"

classify_verdict(score) ==
    IF score >= 7500 THEN "High"
    ELSE IF score >= 5000 THEN "Medium"
    ELSE "Low"

\* -------------------------------------------------- generate_feedback_text
Placeholder == <<"-">>

\* One line of the body: the template that produced it and the value it shows.
Line(kind, arg) == [kind |-> kind, arg |-> arg]

RECURSIVE SuggestionLines(_)
SuggestionLines(parts) ==
    IF parts = <<>> THEN <<>>
    ELSE LET s == Strip(Head(parts))
         IN IF s = <<>> THEN SuggestionLines(Tail(parts))
            ELSE <<Line("project", s), Line("course", s)>> \o SuggestionLines(Tail(parts))

\* The body is the sequence of its lines ("\n".join(lines)).
generate_feedback_text(row) ==
    <<Line("hello", <<>>), Line("blank", <<>>), Line("intro", <<>>),
      Line("score", <<row.score, row.verdict>>),
      Line("matched", IF row.matched_must # Placeholder THEN row.matched_must
                      ELSE row.matched_good),
      Line("missing", IF row.missing_must # Placeholder THEN row.missing_must
                      ELSE <<"None">>),
      Line("blank", <<>>), Line("steps", <<>>)>>
    \o (IF row.missing_must # Placeholder /\ Strip(row.missing_must) # <<>>
        THEN SuggestionLines(Split(row.missing_must, ","))
        ELSE <<Line("reassure", <<>>)>>)
    \o <<Line("blank", <<>>), Line("reeval", <<>>), Line("blank", <<>>),
         Line("regards", <<>>), Line("team", <<>>)>>

\* ------------------------------------------------------- text extraction
\* What a page's extract_text()/get_text() call does: returns text, returns
\* None, or raises.
Returns(t) == [kind |-> "text", v |-> t]
ReturnsNone == [kind |-> "none", v |-> <<>>]
Raises(msg) == [kind |-> "raise", v |-> msg]

\* "x or ''" for the value a call returned.
OrEmpty(o) == IF o.kind = "text" THEN o.v ELSE <<>>

Result(text, err) == [text |-> text, err |-> err]

\* pdfplumber: text += p.extract_text() or "", any exception ends the call.
RECURSIVE PlumberPages(_, _)
PlumberPages(pages, text) ==
    IF pages = <<>> THEN Result(Str(text), None)
    ELSE IF Head(pages).et.kind = "raise" THEN Result(None, Str(Head(pages).et.v))
    ELSE PlumberPages(Tail(pages), text \o OrEmpty(Head(pages).et))

\* A page whose extract_text raises ends up empty: get_text is not tried.
PyPdfPage_no_fallback(p) == IF p.et.kind # "raise" THEN OrEmpty(p.et) ELSE <<>>

\* PyPDF2: extract_text(), else get_text(), else "".
PyPdfPage(p) ==
    IF p.et.kind # "raise" THEN OrEmpty(p.et)
    ELSE IF p.gt.kind # "raise" THEN OrEmpty(p.gt)
    ELSE <<>>

RECURSIVE PyPdfPages(_, _)
PyPdfPages(pages, text) ==
    IF pages = <<>> THEN Result(Str(text), None)
    ELSE PyPdfPages(Tail(pages), text \o PyPdfPage(Head(pages)))

extract_text_from_pdf_bytes(doc, backend) ==
    IF backend = "none" THEN Result(None, Str(<<"no_pdf_backend">>))
    ELSE IF backend = "pdfplumber"
         THEN IF ~doc.open.isNone THEN Result(None, Str(doc.open.v))
              ELSE PlumberPages(doc.frags, <<>>)
    ELSE IF backend = "pypdf2"
         THEN IF ~doc.open.isNone THEN Result(None, Str(doc.open.v))
              ELSE PyPdfPages(doc.frags, <<>>)
    ELSE Result(None, Str(<<"unsupported_pdf_backend">>))

ParagraphTexts(doc) == [i \in 1..Len(doc.frags) |-> OrEmpty(doc.frags[i].et)]

extract_text_from_docx_bytes(doc, backend) ==
    IF backend = "none" THEN Result(None, Str(<<"no_docx_backend">>))
    ELSE IF backend = "python-docx"
         THEN IF ~doc.open.isNone THEN Result(None, Str(doc.open.v))
              ELSE Result(Str(Join(ParagraphTexts(doc), <<"\n">>)), None)
    ELSE IF backend = "docx2txt"
         THEN IF ~doc.open.isNone THEN Result(None, Str(doc.open.v))
              ELSE Result(Str(doc.lib_text), None)
    ELSE Result(None, Str(<<"unsupported_docx_backend">>))

\* ------------------------------------------------------------ batch loop
\* An uploaded file: its name, whether read() works, and what the parsers
\* find in its bytes (open: the exception raised when the document is
\* opened, if any; frags: its pages or paragraphs; lib_text: what
\* docx2txt.process returns for it).
LowerExt(ext) == IF ext = "PDF" THEN "pdf" ELSE IF ext = "DOCX" THEN "docx" ELSE ext

FileName(up) == <<up.base, ".", up.ext>>

\* Lines 219-228: dispatch on the lowercased file name's extension.
Extraction(up, pdfb, docxb) ==
    IF LowerExt(up.ext) = "pdf" THEN extract_text_from_pdf_bytes(up, pdfb)
    ELSE IF LowerExt(up.ext) = "docx" THEN extract_text_from_docx_bytes(up, docxb)
    ELSE Result(Str(<<>>), Str(<<"unsupported file type">>))

JoinOrDash(skills) == IF skills # <<>> THEN Join(skills, <<",", " ">>) ELSE Placeholder

\* Lines 232-241.
FailureRecord(up, err, must) ==
    [filename |-> FileName(up), score |-> 0, verdict |-> "Low",
     matched_must |-> Placeholder, matched_good |-> Placeholder,
     missing_must |-> JoinOrDash(must),
     email |-> Placeholder, error |-> err]

MatchedSkills(skills, text_clean) == SelectSeq(skills, LAMBDA s : Contains(s, text_clean))
MissingSkills(skills, matched) == SelectSeq(skills, LAMBDA s : ~InList(s, matched))

\* round(x, 2) of x = 100 * m / n, in hundredths, ties to even.
RoundHundredths(m, n) ==
    LET q == (10000 * m) \div n
        r == (10000 * m) % n
    IN IF 2 * r < n THEN q
       ELSE IF 2 * r > n THEN q + 1
       ELSE IF q % 2 = 0 THEN q ELSE q + 1

\* The score without the case of an empty must-have list.
HardScore_ratio_only(matched, must) ==
    RoundHundredths(Len(matched), Max({1, Len(must)}))

HardScore(matched, must) ==
    IF must # <<>> THEN RoundHundredths(Len(matched), Max({1, Len(must)})) ELSE 10000

\* Lines 245-265.
ScoredRecord(up, text, must, good) ==
    LET detected_email == extract_email_from_text(text)
        text_clean == clean_text(text)
        matched_must == MatchedSkills(must, text_clean)
        matched_good == MatchedSkills(good, text_clean)
        missing_must == MissingSkills(must, matched_must)
        final_score == HardScore(matched_must, must)
    IN [filename |-> FileName(up), score |-> final_score,
        verdict |-> classify_verdict(final_score),
        matched_must |-> JoinOrDash(matched_must),
        matched_good |-> JoinOrDash(matched_good),
        missing_must |-> JoinOrDash(missing_must),
        email |-> IF Truthy(detected_email) THEN detected_email.v ELSE Placeholder,
        error |-> <<>>]

ErrorEntry(up, kind, msg) == [name |-> FileName(up), kind |-> kind, msg |-> msg]

\* One iteration of "for up in uploaded_files": what it appends to results
\* and to errors.
LoopBody(up, pdfb, docxb, must, good) ==
    IF ~up.readable
    THEN [results |-> <<>>, errors |-> <<ErrorEntry(up, "read", up.read_msg)>>]
    ELSE LET ex == Extraction(up, pdfb, docxb)
         IN IF Truthy(ex.err)
            THEN [results |-> <<FailureRecord(up, ex.err.v, must)>>,
                  errors |-> <<ErrorEntry(up, "extraction", ex.err.v)>>]
            ELSE [results |-> <<ScoredRecord(up, ex.text, must, good)>>,
                  errors |-> <<>>]

\* ------------------------------------------------------------------ inputs
\* Skills as lines 198-199 leave them: trimmed, lowercased, non-empty,
\* comma-free.
Skill == {<<"a">>, <<"b">>, <<"-">>}
MustConfigs == SeqsUpTo(Skill, MaxMust)
GoodConfigs == {<<>>, <<<<"b">>>>}
PdfBackends == {"none", "pdfplumber", "pypdf2"}
DocxBackends == {"none", "python-docx", "docx2txt"}

\* A PyPDF2 page object has no get_text: the fallback call raises.
Page(t) == [et |-> Returns(t), gt |-> Raises(<<"no get_text">>)]
EmptyPage == [et |-> ReturnsNone, gt |-> Raises(<<"no get_text">>)]
BrokenPage == [et |-> Raises(<<"bad page">>), gt |-> Raises(<<"no get_text">>)]

Upload(base, ext, readable, open, frags, lib_text) ==
    [base |-> base, ext |-> ext, readable |-> readable, read_msg |-> <<"closed file">>,
     open |-> open, frags |-> frags, lib_text |-> lib_text]

Uploads ==
    { Upload("cv0", "pdf", FALSE, None, <<>>, <<>>),
      Upload("cv1", "txt", TRUE, None, <<>>, <<>>),
      Upload("cv2", "PDF", TRUE, Str(<<>>), <<>>, <<>>),
      Upload("cv4", "pdf", TRUE, None,
             <<Page(<<"A", "@", "b">>), EmptyPage, Page(<<".", "c", "d">>)>>, <<>>),
      Upload("cv5", "docx", TRUE, None,
             <<Page(<<"a", ",">>), Page(<<"a", "@", "b", ".", "c", "d">>)>>,
             <<"a", ",", "\n", "\n", "a", "@", "b", ".", "c", "d">>),
      Upload("cv6", "pdf", TRUE, None, <<Page(<<"b", "-">>), BrokenPage>>, <<>>) }

\* --------------------------------------------------------------- batch run
\* The process environment: SMTP_USER, SMTP_PASSWORD, SMTP_SERVER, SMTP_PORT,
\* each unset (None) or a string.
Env(user, pass, server, port) ==
    [user |-> user, pass |-> pass, server |-> server, port |-> port]
NoSmtpEnv == Env(None, None, None, None)

\* Nothing has run yet: empty results, no send.
Fresh ==
    /\ uploaded_files = <<>>
    /\ results = <<>>
    /\ errors = <<>>
    /\ feedback_body = <<>>
    /\ mi = 0
    /\ sent = 0
    /\ errors_out = <<>>
    /\ calls = <<>>

\* No function is applied on its own.
NoFn == fn_arg = <<>> /\ fn_ret = <<>>

Init ==
    /\ PDF_BACKEND \in PdfBackends
    /\ DOCX_BACKEND \in DocxBackends
    /\ must_skills \in MustConfigs
    /\ good_skills \in GoodConfigs
    /\ env = NoSmtpEnv
    /\ pc = "batch"
    /\ Fresh
    /\ NoFn

Iterate(up) ==
    LET out == LoopBody(up, PDF_BACKEND, DOCX_BACKEND, must_skills, good_skills)
    IN /\ pc = "batch"
       /\ Len(uploaded_files) < MaxFiles
       /\ uploaded_files' = Append(uploaded_files, up)
       /\ results' = results \o out.results
       /\ errors' = errors \o out.errors
       /\ UNCHANGED <<config, pc, feedback_body, env, mass, fn>>

\* Lines 214-217: read() raises; the file is reported and skipped.
ReadFails == \E up \in Uploads : ~up.readable /\ Iterate(up)

\* Lines 230-242: extraction_error is truthy.
ExtractionFails ==
    \E up \in Uploads :
        /\ up.readable
        /\ Truthy(Extraction(up, PDF_BACKEND, DOCX_BACKEND).err)
        /\ Iterate(up)

\* Lines 244-265.
Scores ==
    \E up \in Uploads :
        /\ up.readable
        /\ ~Truthy(Extraction(up, PDF_BACKEND, DOCX_BACKEND).err)
        /\ Iterate(up)

\* The loop is over; the page goes on to show errors and results.
BatchEnds ==
    /\ pc = "batch"
    /\ pc' = "ui"
    /\ UNCHANGED <<config, batch, feedback_body, env, mass, fn>>

\* Lines 285-295: the drilldown picks a file name; the first record with
\* that name is previewed.
SelectResume ==
    /\ pc = "ui"
    /\ \E i \in 1..Len(results) :
        LET sel == results[i].filename
            row == results[Min({j \in 1..Len(results) : results[j].filename = sel})]
        IN feedback_body' = generate_feedback_text(row)
    /\ pc' = "preview"
    /\ UNCHANGED <<config, batch, env, mass, fn>>

Next == ReadFails \/ ExtractionFails \/ Scores \/ BatchEnds \/ SelectResume

Spec == Init /\ [][Next]_vars

\* ---------------------------------------------------- reading the records
Range(xs) == {xs[i] : i \in 1..Len(xs)}

RECURSIVE IsSubseq(_, _)
IsSubseq(a, b) ==
    IF a = <<>> THEN TRUE
    ELSE IF b = <<>> THEN FALSE
    ELSE IF Head(a) = Head(b) THEN IsSubseq(Tail(a), Tail(b))
    ELSE IsSubseq(a, Tail(b))

\* The skills a record field shows, read the way generate_feedback_text
\* reads it: the placeholder is no skill, otherwise the comma-separated parts.
SkillsShown(field) ==
    IF field = Placeholder THEN <<>>
    ELSE SelectSeq([i \in 1..Len(Split(field, ",")) |-> Strip(Split(field, ",")[i])],
                   LAMBDA x : x # <<>>)

\* The readable files among the first i uploads: the position in results of
\* the record of upload i.
RecordIndex(i) == Cardinality({j \in 1..i : uploaded_files[j].readable})

ExtractionOf(i) == Extraction(uploaded_files[i], PDF_BACKEND, DOCX_BACKEND)

\* Upload i went through lines 244-265.
WasScored(i) == uploaded_files[i].readable /\ ~Truthy(ExtractionOf(i).err)

\* The list missing_must of line 251 for upload i, or must_skills on the
\* failure path (line 238).
MissingMustOf(i) ==
    IF WasScored(i)
    THEN MissingSkills(must_skills,
                       MatchedSkills(must_skills, clean_text(ExtractionOf(i).text)))
    ELSE must_skills

\* C1: in every record, the matched and the missing must-have skills are
\* disjoint, together they are mustHave (as sets), and each keeps the
\* configured order.
C1_MustPartition ==
    \A k \in 1..Len(results) :
        LET matched == SkillsShown(results[k].matched_must)
            missing == SkillsShown(results[k].missing_must)
        IN /\ Range(matched) \cap Range(missing) = {}
           /\ Range(matched) \cup Range(missing) = Range(must_skills)
           /\ IsSubseq(matched, must_skills)
           /\ IsSubseq(missing, must_skills)

\* C2 as stated: every score is within [0, 100] and is 100 whenever mustHave
\* is empty, whatever happened to the document.
C2_FullCreditAlways ==
    \A k \in 1..Len(results) :
        /\ results[k].score \in 0..10000
        /\ (must_skills = <<>> => results[k].score = 10000)

\* C2 amended: every score is within [0, 100]; with an empty mustHave the
\* score is 100 on every record except the synthesized failure records (those
\* carrying an error), whose score is 0.
C2_FullCreditUnlessFailed ==
    \A k \in 1..Len(results) :
        /\ results[k].score \in 0..10000
        /\ (results[k].error # <<>> => results[k].score = 0)
        /\ (must_skills = <<>> /\ results[k].error = <<>> => results[k].score = 10000)

\* With an empty mustHave, one batch holds a failure record at 0 and a
\* scored record at 100.
C2_Witness ==
    /\ must_skills = <<>>
    /\ \E k \in 1..Len(results) : results[k].error # <<>> /\ results[k].score = 0
    /\ \E k \in 1..Len(results) : results[k].error = <<>> /\ results[k].score = 10000

\* C3: the verdict of every record follows its score with lower-inclusive
\* bands (High from 75.00, Medium from 50.00, Low below), and the four
\* boundary scores fall as stated.
C3_VerdictBands ==
    /\ \A k \in 1..Len(results) :
        /\ (results[k].verdict = "High") = (results[k].score >= 7500)
        /\ (results[k].verdict = "Medium") =
               (results[k].score >= 5000 /\ results[k].score < 7500)
        /\ (results[k].verdict = "Low") = (results[k].score < 5000)
    /\ classify_verdict(7500) = "High"
    /\ classify_verdict(7499) = "Medium"
    /\ classify_verdict(5000) = "Medium"
    /\ classify_verdict(4999) = "Low"

\* A batch with a record exactly on the Medium boundary and one in High.
C3_Witness ==
    /\ \E k \in 1..Len(results) : results[k].score = 5000 /\ results[k].verdict = "Medium"
    /\ \E k \in 1..Len(results) : results[k].score = 10000 /\ results[k].verdict = "High"

\* C4: after the batch the result holds one record per uploaded document, in
\* upload order, each the record the document gets when processed alone.
C4_OneRecordPerUpload ==
    pc # "batch" =>
        /\ Len(results) = Len(uploaded_files)
        /\ \A i \in 1..Len(uploaded_files) :
            <<results[i]>> = LoopBody(uploaded_files[i], PDF_BACKEND, DOCX_BACKEND,
                                      must_skills, good_skills).results

\* C5: a document whose extraction returned an error (any message, the empty
\* one included) has the synthesized failure record, with a non-empty error
\* that is also in the displayed error list.
C5_FailureRecord ==
    \A i \in 1..Len(uploaded_files) :
        (uploaded_files[i].readable /\ ~ExtractionOf(i).err.isNone) =>
            LET r == results[RecordIndex(i)]
            IN /\ r.score = 0
               /\ r.verdict = "Low"
               /\ r.matched_must = Placeholder
               /\ r.matched_good = Placeholder
               /\ r.missing_must = JoinOrDash(must_skills)
               /\ r.email = Placeholder
               /\ r.error # <<>>
               /\ \E e \in Range(errors) :
                    e.name = r.filename /\ e.kind = "extraction" /\ e.msg = r.error

\* The lines of a body of the given kinds, in order.
LinesOf(body, kinds) == SelectSeq(body, LAMBDA l : l.kind \in kinds)

RECURSIVE ExpectedSuggestions(_)
ExpectedSuggestions(skills) ==
    IF skills = <<>> THEN <<>>
    ELSE <<Line("project", Head(skills)), Line("course", Head(skills))>>
         \o ExpectedSuggestions(Tail(skills))

\* C9: the feedback body of every record has two suggestion lines per missing
\* must-have skill, in order, and no reassurance line, or, when nothing is
\* missing, one reassurance line and no suggestion; the missing line shows
\* "None" exactly when nothing is missing.
C9_FeedbackShape ==
    \A i \in 1..Len(uploaded_files) :
        uploaded_files[i].readable =>
            LET body == generate_feedback_text(results[RecordIndex(i)])
                missing == MissingMustOf(i)
            IN /\ LinesOf(body, {"project", "course"}) = ExpectedSuggestions(missing)
               /\ Len(LinesOf(body, {"reassure"})) = (IF missing = <<>> THEN 1 ELSE 0)
               /\ (LinesOf(body, {"missing"})[1].arg = <<"None">>) = (missing = <<>>)

\* --------------------------------------------------------- send_email_smtp
DigitValue(c) ==
    CASE c = "0" -> 0 [] c = "1" -> 1 [] c = "2" -> 2 [] c = "3" -> 3 [] c = "4" -> 4
      [] c = "5" -> 5 [] c = "6" -> 6 [] c = "7" -> 7 [] c = "8" -> 8 [] c = "9" -> 9
AllDigits == {"0", "1", "2", "3", "4", "5", "6", "7", "8", "9"}

\* int(s) for a string: surrounding whitespace allowed, then decimal digits;
\* anything else raises ValueError.
IntRaises(t) == Strip(t) = <<>> \/ \E i \in 1..Len(Strip(t)) : Strip(t)[i] \notin AllDigits
RECURSIVE DecimalValue(_, _)
DecimalValue(t, acc) ==
    IF t = <<>> THEN acc ELSE DecimalValue(Tail(t), 10 * acc + DigitValue(Head(t)))

\* Line 159: int(os.getenv("SMTP_PORT", 465)).
PortRaises(e) == ~e.port.isNone /\ IntRaises(e.port.v)
smtp_port(e) == IF e.port.isNone THEN 465 ELSE DecimalValue(Strip(e.port.v), 0)
smtp_server(e) == IF e.server.isNone THEN <<"smtp.gmail.com">> ELSE e.server.v

CredentialsMissing == <<"SMTP_USER and SMTP_PASSWORD environment variables are not set.">>

\* The calls made on the connection, in order, by port (lines 170-179); the
\* last is the QUIT that leaving the with-block sends.
TransportSteps(port) ==
    IF port = 465 THEN <<"connect", "login", "sendmail", "close">>
    ELSE <<"connect", "starttls", "login", "sendmail", "close">>

\* The outcome of one call.  net names the transport step that raises (or
\* "none") and the text of its exception.
Outcome(to, net, raised, ok, msg, attempted) ==
    [to |-> to, net |-> net, raised |-> raised, ok |-> ok, msg |-> msg,
     attempted |-> attempted]

send_email_smtp(receiver, e, net) ==
    IF PortRaises(e) THEN Outcome(receiver, net, TRUE, FALSE, <<"ValueError">>, FALSE)
    ELSE IF ~Truthy(e.user) \/ ~Truthy(e.pass)
         THEN Outcome(receiver, net, FALSE, FALSE, CredentialsMissing, FALSE)
    ELSE IF InList(net.fault, TransportSteps(smtp_port(e)))
         THEN Outcome(receiver, net, FALSE, FALSE, net.msg, TRUE)
    ELSE Outcome(receiver, net, FALSE, TRUE, <<"Sent">>, TRUE)

NetOutcomes ==
    {[fault |-> "none", msg |-> <<>>]}
    \cup {[fault |-> f, msg |-> m] : f \in {"connect", "starttls", "login", "sendmail"},
                                     m \in {<<>>, <<"refused">>}}

EnvConfigs ==
    {Env(u, p, None, port) :
        u \in {None, Str(<<"me">>)},
        p \in {None, Str(<<>>), Str(<<"pw">>)},
        port \in {None, Str(<<"4", "6", "5">>), Str(<<"5", "8", "7">>),
                  Str(<<"a", "b", "c">>)}}

\* ------------------------------------------------------------------- sending
HasEmail(r) == r.email # <<>> /\ r.email # Placeholder

\* Lines 302-315: the button shows only for a row with a detected email.
SingleSend ==
    /\ pc = "ui"
    /\ \E i \in 1..Len(results), net \in NetOutcomes :
        /\ HasEmail(results[i])
        /\ LET out == send_email_smtp(results[i].email, env, net)
           IN /\ calls' = Append(calls, out)
              /\ pc' = IF out.raised THEN "send_crashed" ELSE "sent_one"
    /\ UNCHANGED <<config, batch, feedback_body, env, mi, sent, errors_out, fn>>

\* Lines 319-322.
MassStart ==
    /\ pc = "ui"
    /\ pc' = "mass"
    /\ mi' = 1
    /\ sent' = 0
    /\ errors_out' = <<>>
    /\ UNCHANGED <<config, batch, feedback_body, env, calls, fn>>

\* Line 324 is false: no send for this record.
MassSkip ==
    /\ pc = "mass"
    /\ mi <= Len(results)
    /\ ~HasEmail(results[mi])
    /\ mi' = mi + 1
    /\ UNCHANGED <<config, batch, pc, feedback_body, env, sent, errors_out, calls, fn>>

\* Lines 325-330: the call returns.
MassSend ==
    /\ pc = "mass"
    /\ mi <= Len(results)
    /\ HasEmail(results[mi])
    /\ \E net \in NetOutcomes :
        LET out == send_email_smtp(results[mi].email, env, net)
        IN /\ ~out.raised
           /\ calls' = Append(calls, out)
           /\ sent' = IF out.ok THEN sent + 1 ELSE sent
           /\ errors_out' = IF out.ok THEN errors_out
                            ELSE Append(errors_out, <<results[mi].email, out.msg>>)
    /\ mi' = mi + 1
    /\ UNCHANGED <<config, batch, pc, feedback_body, env, fn>>

\* Line 326: the call raises; nothing in the loop catches it.
MassSendRaises ==
    /\ pc = "mass"
    /\ mi <= Len(results)
    /\ HasEmail(results[mi])
    /\ \E net \in NetOutcomes :
        LET out == send_email_smtp(results[mi].email, env, net)
        IN /\ out.raised
           /\ calls' = Append(calls, out)
    /\ pc' = "mass_crashed"
    /\ UNCHANGED <<config, batch, feedback_body, env, mi, sent, errors_out, fn>>

\* Lines 331-335: the loop is over, the counts are shown.
MassDone ==
    /\ pc = "mass"
    /\ mi > Len(results)
    /\ pc' = "mass_done"
    /\ UNCHANGED <<config, batch, feedback_body, env, mass, fn>>

InitSend ==
    /\ PDF_BACKEND = "pdfplumber"
    /\ DOCX_BACKEND \in {"none", "python-docx"}
    /\ must_skills \in {<<>>, <<<<"a">>>>}
    /\ good_skills = <<>>
    /\ env \in EnvConfigs
    /\ pc = "batch"
    /\ Fresh
    /\ NoFn

NextSend ==
    \/ Next
    \/ SingleSend
    \/ MassStart \/ MassSkip \/ MassSend \/ MassSendRaises \/ MassDone

SpecSend == InitSend /\ [][NextSend]_vars

\* C6: send_email_smtp never raises to its caller; it returns the
\* credentials-missing failure without trying to connect when the user or the
\* password is missing, the fault's text when a transport step faults, and
\* (True, "Sent") otherwise.
C6_SendAlwaysReturns ==
    \A k \in 1..Len(calls) :
        LET c == calls[k]
            nocreds == ~Truthy(env.user) \/ ~Truthy(env.pass)
        IN /\ ~c.raised
           /\ nocreds => (~c.ok /\ c.msg = CredentialsMissing /\ ~c.attempted)
           /\ (~nocreds /\ InList(c.net.fault, TransportSteps(smtp_port(env))))
                  => (~c.ok /\ c.msg = c.net.msg /\ c.attempted)
           /\ (~nocreds /\ ~InList(c.net.fault, TransportSteps(smtp_port(env))))
                  => (c.ok /\ c.msg = <<"Sent">>)

\* C8: the mass-send loop always runs to its end; it has then called
\* send_email_smtp once per record with a detected email, in result order, and
\* the sent count plus the recorded failures is the number of those records.
C8_MassSendCompletes ==
    /\ pc # "mass_crashed"
    /\ pc = "mass_done" =>
        LET with_email == SelectSeq(results, HasEmail)
        IN /\ [k \in 1..Len(calls) |-> calls[k].to]
                  = [k \in 1..Len(with_email) |-> with_email[k].email]
           /\ sent + Len(errors_out) = Len(with_email)

\* ------------------------------------------------- clean_text on its own
MaxLen == 4
CleanAlphabet == {"a", "B", "7", " ", "\n", "-", ","}

InitClean ==
    /\ PDF_BACKEND = "none"
    /\ DOCX_BACKEND = "none"
    /\ must_skills = <<>>
    /\ good_skills = <<>>
    /\ env = NoSmtpEnv
    /\ pc = "clean"
    /\ Fresh
    /\ fn_arg \in SeqsUpTo(CleanAlphabet, MaxLen)
    /\ fn_ret = <<>>

\* clean_text applied to the text, then to its own result.
Normalize ==
    /\ pc = "clean"
    /\ Len(fn_ret) < 2
    /\ fn_ret' = Append(fn_ret, clean_text(Str(IF fn_ret = <<>> THEN fn_arg
                                                ELSE fn_ret[Len(fn_ret)])))
    /\ UNCHANGED <<config, batch, pc, feedback_body, env, mass, fn_arg>>

NextClean == Normalize

SpecClean == InitClean /\ [][NextClean]_vars

\* C7: clean_text is idempotent: cleaning a cleaned text changes nothing.
C7_CleanIdempotent == Len(fn_ret) = 2 => fn_ret[2] = fn_ret[1]

\* ------------------------------------------------ extraction on its own
MaxFrags == 2

\* A page whose extract_text raises and whose get_text answers.
FallbackPage(o) == [et |-> Raises(<<"bad page">>), gt |-> o]

PagePool ==
    {Page(<<"a">>), Page(<<"b", " ">>), EmptyPage, BrokenPage,
     FallbackPage(Returns(<<"d">>)), FallbackPage(ReturnsNone)}
\* A paragraph's text is always a string.
ParagraphPool == {Page(<<"a">>), Page(<<>>), Page(<<"b", " ">>)}
OpenOutcomes == {None, Str(<<>>), Str(<<"boom">>)}

ExtractInputs ==
    {Upload("cv", "pdf", TRUE, o, fs, <<>>) :
        o \in OpenOutcomes, fs \in SeqsUpTo(PagePool, MaxFrags)}
    \cup {Upload("cv", "docx", TRUE, o, fs, lt) :
        o \in OpenOutcomes, fs \in SeqsUpTo(ParagraphPool, MaxFrags),
        lt \in {<<>>, <<"a", "\n", "\n", "b", " ">>}}

InitExtract ==
    /\ PDF_BACKEND \in PdfBackends
    /\ DOCX_BACKEND \in DocxBackends
    /\ must_skills = <<>>
    /\ good_skills = <<>>
    /\ env = NoSmtpEnv
    /\ pc = "extract"
    /\ Fresh
    /\ fn_arg \in ExtractInputs
    /\ fn_ret = <<>>

ExtractPdf ==
    /\ pc = "extract"
    /\ fn_ret = <<>>
    /\ fn_arg.ext = "pdf"
    /\ fn_ret' = <<extract_text_from_pdf_bytes(fn_arg, PDF_BACKEND)>>
    /\ UNCHANGED <<config, batch, pc, feedback_body, env, mass, fn_arg>>

ExtractDocx ==
    /\ pc = "extract"
    /\ fn_ret = <<>>
    /\ fn_arg.ext = "docx"
    /\ fn_ret' = <<extract_text_from_docx_bytes(fn_arg, DOCX_BACKEND)>>
    /\ UNCHANGED <<config, batch, pc, feedback_body, env, mass, fn_arg>>

NextExtract == ExtractPdf \/ ExtractDocx

SpecExtract == InitExtract /\ [][NextExtract]_vars

\* The text a page or paragraph yields: what extract_text returns, what
\* get_text returns when PyPDF2's extract_text raised, nothing otherwise.
FragmentText(f, backend) ==
    IF f.et.kind = "text" THEN f.et.v
    ELSE IF backend = "pypdf2" /\ f.et.kind = "raise" /\ f.gt.kind = "text" THEN f.gt.v
    ELSE <<>>

FragmentTexts(doc, backend) ==
    [i \in 1..Len(doc.frags) |-> FragmentText(doc.frags[i], backend)]

\* The texts with sep put before every text but the first.
Separated(texts, sep) ==
    Concat([i \in 1..Len(texts) |-> IF i = 1 THEN texts[i] ELSE sep \o texts[i]])

Extracted == pc = "extract" /\ fn_ret # <<>> /\ fn_ret[1].err.isNone
BoundBackend == IF fn_arg.ext = "pdf" THEN PDF_BACKEND ELSE DOCX_BACKEND

\* C10 as stated, for the backends whose handling of the fragments is in the
\* source (docx2txt hands back the library's text): the extracted text is the
\* fragments' texts concatenated, nothing between them.
C10_PlainConcatenation ==
    (Extracted /\ BoundBackend # "docx2txt") =>
        fn_ret[1].text.v = Concat(FragmentTexts(fn_arg, BoundBackend))

\* C10 amended: a pdf's text is its pages' texts concatenated, nothing between
\* them, a page without text adding nothing; a docx's text is, with
\* python-docx, its paragraphs' texts with one newline between consecutive
\* paragraphs and, with docx2txt, the library's text unchanged.
C10_ConcatenationByFormat ==
    Extracted =>
        /\ ~fn_ret[1].text.isNone
        /\ fn_arg.ext = "pdf" =>
               fn_ret[1].text.v = Concat(FragmentTexts(fn_arg, PDF_BACKEND))
        /\ (fn_arg.ext = "docx" /\ DOCX_BACKEND = "python-docx") =>
               fn_ret[1].text.v = Separated(FragmentTexts(fn_arg, DOCX_BACKEND), <<"\n">>)
        /\ (fn_arg.ext = "docx" /\ DOCX_BACKEND = "docx2txt") =>
               fn_ret[1].text.v = fn_arg.lib_text

\* PyPDF2 extracted a pdf of two pages, the second yielding no text.
C10_Witness ==
    /\ Extracted
    /\ fn_arg.ext = "pdf"
    /\ PDF_BACKEND = "pypdf2"
    /\ fn_arg.frags = <<Page(<<"b", " ">>), BrokenPage>>
    /\ fn_ret[1].text.v = <<"b", " ">>

====
